---- MODULE Spec2Model ----
(***************************************************************************)
(* The wire-message codec of drogulus/net/messages.py: the eight message   *)
(* classes, to_msgpack, from_msgpack and make_message.                     *)
(*                                                                         *)
(* A Python value is a record [t, s, n]: t is its type, s its text (the    *)
(* content of a str, the element shape of a list/tuple/dict) and n its     *)
(* number (the value of an int, the length of a byte string).              *)
(***************************************************************************)
EXTENDS Integers, Sequences, FiniteSets, TLC

VARIABLES pc, message, raw, result, frames

vars == <<pc, message, raw, result, frames>>

(* ---------------------------------------------------------------- bounds *)

\* At most MaxDev places of an input differ from a well-formed one.
MaxDev == 3

\* Number of concurrent callers in SpecConc.
NumProcs == 2

(* ---------------------------------------------------------- Python values *)

PyStr(s) == [t |-> "str", s |-> s, n |-> 0]

PyBytes(n) == [t |-> "bytes", s |-> "", n |-> n]

PyInt(n) == [t |-> "int", s |-> "", n |-> n]

PyList(shape) == [t |-> "list", s |-> shape, n |-> 0]

PyTuple(shape) == [t |-> "tuple", s |-> shape, n |-> 0]

PyDict(shape) == [t |-> "dict", s |-> shape, n |-> 0]

PyNone == [t |-> "none", s |-> "", n |-> 0]

\* Width in bytes of a node id, key hash, public key and signature.
IdLen == 64

(* ------------------------------------------------------- message classes *)

Classes ==
    <<"Error", "Ping", "Pong", "Store", "FindNode", "Nodes", "FindValue", "Value">>

ClassSet == {Classes[i] : i \in DOMAIN Classes}

\* klass._fields: the declared field names of each namedtuple, in order.
Fields(klass) ==
    CASE klass = "Error" ->
           <<"uuid", "node", "code", "title", "details", "version">>
      [] klass = "Ping" -> <<"uuid", "node", "version">>
      [] klass = "Pong" -> <<"uuid", "node", "version">>
      [] klass = "Store" ->
           <<"uuid", "node", "key", "value", "timestamp", "expires",
             "public_key", "name", "meta", "sig", "version">>
      [] klass = "FindNode" -> <<"uuid", "node", "key", "version">>
      [] klass = "Nodes" -> <<"uuid", "node", "nodes", "version">>
      [] klass = "FindValue" -> <<"uuid", "node", "key", "version">>
      [] klass = "Value" ->
           <<"uuid", "node", "key", "value", "timestamp", "expires",
             "public_key", "name", "meta", "sig", "version">>

FieldSet(klass) == {Fields(klass)[i] : i \in DOMAIN Fields(klass)}

AllFields == UNION {FieldSet(k) : k \in ClassSet}

\* A variant of Lower that leaves the class name as it is.
LowerNoop(name) == name

\* message.__class__.__name__.lower()

Lower(name) ==
    CASE name = "Error" -> "error"
      [] name = "Ping" -> "ping"
      [] name = "Pong" -> "pong"
      [] name = "Store" -> "store"
      [] name = "FindNode" -> "findnode"
      [] name = "Nodes" -> "nodes"
      [] name = "FindValue" -> "findvalue"
      [] name = "Value" -> "value"
      [] OTHER -> name

(* ------------------------------------------------------------ validators *)

IsSeq(v) == v.t \in {"list", "tuple"}

\* VALIDATORS[field](value): total predicates, one per field name.
Validator(field, v) ==
    CASE field = "uuid" -> \/ v.t = "str" /\ v.s # ""
                           \/ v.t = "bytes" /\ v.n > 0
      [] field = "node" -> v.t = "bytes" /\ v.n = IdLen
      [] field = "version" -> v.t \in {"str", "int"}
      [] field = "code" -> v.t = "int"
      [] field = "title" -> v.t = "str"
      [] field = "details" -> v.t = "dict" /\ v.s = "strmap"
      [] field = "key" -> v.t = "bytes" /\ v.n = IdLen
      [] field = "value" -> TRUE
      [] field = "timestamp" -> v.t = "int" /\ v.n >= 0
      [] field = "expires" -> v.t = "int"
      [] field = "public_key" -> v.t = "bytes" /\ v.n = IdLen
      [] field = "name" -> v.t = "str"
      [] field = "meta" -> IsSeq(v) /\ v.s = "pairs"
      [] field = "sig" -> v.t = "bytes" /\ v.n = IdLen
      [] field = "nodes" -> IsSeq(v) /\ v.s = "peers"

(* --------------------------------------------------------------- msgpack *)

\* msgpack.packb of one value: list and tuple both become an array.
PackValue(v) == IF IsSeq(v) THEN [v EXCEPT !.t = "array"] ELSE v

\* msgpack.unpackb(use_list=False) of one value: an array becomes a tuple.
UnpackValue(w) == IF w.t = "array" THEN [w EXCEPT !.t = "tuple"] ELSE w

Entry(k, v) == [k |-> k, v |-> v]

\* The wire bytes: a packed map (its entries in order), a packed value that is
\* no map, or bytes that are no msgpack at all.
RawMap(entries) == [kind |-> "map", entries |-> entries, top |-> PyNone]

RawValue(w) == [kind |-> "value", entries |-> <<>>, top |-> w]

RawGarbage == [kind |-> "garbage", entries |-> <<>>, top |-> PyNone]

NoRaw == [kind |-> "none", entries |-> <<>>, top |-> PyNone]

\* msgpack.packb(data) of an ordered dict.
Packb(od) == RawMap([i \in DOMAIN od |-> Entry(od[i].k, PackValue(od[i].v))])

Keys(entries) == {entries[i].k : i \in DOMAIN entries}

\* The value a dict built from the entries holds at k: the last entry wins.
Lookup(entries, k) ==
    LET I == {i \in DOMAIN entries : entries[i].k = k}
        last == CHOOSE i \in I : \A j \in I : j <= i
    IN  entries[last].v

(* ----------------------------------------------------- outcomes of a call *)

NoMessage == [klass |-> "", args |-> <<>>]

\* A namedtuple instance: its class and its positional values.
Message(klass, args) == [klass |-> klass, args |-> args]

NoResult == [kind |-> "none", klass |-> "", args |-> <<>>, code |-> 0, details |-> <<>>]

\* The call returned a message value.
Returned(m) ==
    [kind |-> "message", klass |-> m.klass, args |-> m.args, code |-> 0,
     details |-> <<>>]

\* The call raised exception `kind` with arguments (code, ERRORS[code], details).
Raised(kind, code, details) ==
    [kind |-> kind, klass |-> "", args |-> <<>>, code |-> code, details |-> details]

(* ------------------------------------------------------------ to_msgpack *)

\* message._asdict(): an ordered dict of field name -> value, in field order.
AsDict(m) == [i \in DOMAIN Fields(m.klass) |-> Entry(Fields(m.klass)[i], m.args[i])]

\* od[k] = v on an ordered dict: replace in place, or append a new key.
OdSet(od, k, v) ==
    IF k \in Keys(od)
    THEN [i \in DOMAIN od |-> IF od[i].k = k THEN Entry(k, v) ELSE od[i]]
    ELSE Append(od, Entry(k, v))

\* A variant of Tagged that puts the tag in front of the fields.
TaggedFirst(data, name) == <<Entry("message", PyStr(name))>> \o data

\* data['message'] = name
Tagged(data, name) == OdSet(data, "message", PyStr(name))

to_msgpack(m) ==
    LET name == Lower(m.klass)
        data == AsDict(m)
    IN  Packb(Tagged(data, name))

(* ---------------------------------------------------------- make_message *)

EmptyDict == <<>>

NewFrame == [args |-> <<>>, errors |-> EmptyDict]

\* A variant of VisitField that stops recording at the first error.
VisitFieldFailFast(fr, field, data) ==
    IF DOMAIN fr.errors # {} THEN fr
    ELSE IF field \notin DOMAIN data
    THEN [fr EXCEPT !.errors = (field :> "Missing field.") @@ fr.errors]
    ELSE IF ~Validator(field, data[field])
    THEN [fr EXCEPT !.errors = (field :> "Invalid value.") @@ fr.errors]
    ELSE [fr EXCEPT !.args = Append(fr.args, data[field])]

\* A variant of VisitField that stages a rejected value as well.
VisitFieldNoContinue(fr, field, data) ==
    IF field \notin DOMAIN data
    THEN [fr EXCEPT !.errors = (field :> "Missing field.") @@ fr.errors]
    ELSE IF ~Validator(field, data[field])
    THEN [fr EXCEPT !.errors = (field :> "Invalid value.") @@ fr.errors,
                    !.args = Append(fr.args, data[field])]
    ELSE [fr EXCEPT !.args = Append(fr.args, data[field])]

\* A variant of VisitField that takes a missing field for an optional one.
VisitFieldSkipMissing(fr, field, data) ==
    IF field \notin DOMAIN data
    THEN fr
    ELSE IF ~Validator(field, data[field])
    THEN [fr EXCEPT !.errors = (field :> "Invalid value.") @@ fr.errors]
    ELSE [fr EXCEPT !.args = Append(fr.args, data[field])]

\* One iteration of make_message's loop over klass._fields.
VisitField(fr, field, data) ==
    IF field \notin DOMAIN data
    THEN [fr EXCEPT !.errors = (field :> "Missing field.") @@ fr.errors]
    ELSE IF ~Validator(field, data[field])
    THEN [fr EXCEPT !.errors = (field :> "Invalid value.") @@ fr.errors]
    ELSE [fr EXCEPT !.args = Append(fr.args, data[field])]

\* The loop's state after it has visited the first k fields.
RECURSIVE Visit(_, _, _)
Visit(fields, data, k) ==
    IF k = 0 THEN NewFrame ELSE VisitField(Visit(fields, data, k - 1), fields[k], data)

\* klass(*args): a namedtuple takes exactly one argument per field.
Construct(klass, args) ==
    IF Len(args) = Len(Fields(klass))
    THEN Returned(Message(klass, args))
    ELSE Raised("TypeError", 0, EmptyDict)

\* The end of make_message: raise the collected errors or build the value.
Finish(klass, fr) ==
    IF DOMAIN fr.errors # {}
    THEN Raised("ValueError", 2, fr.errors)
    ELSE Construct(klass, fr.args)

make_message(klass, data) ==
    Finish(klass, Visit(Fields(klass), data, Len(Fields(klass))))

(* ---------------------------------------------------------- from_msgpack *)

\* The dict msgpack.unpackb(raw, use_list=False) builds from a packed map.
UnpackMap(entries) == [k \in Keys(entries) |-> UnpackValue(Lookup(entries, k))]

\* A variant of KlassForTag that also takes the class name itself for a tag.
KlassForTagAnyCase(tag) ==
    IF tag.t # "str" THEN ""
    ELSE IF \E k \in ClassSet : tag.s \in {k, Lower(k)}
    THEN CHOOSE k \in ClassSet : tag.s \in {k, Lower(k)}
    ELSE ""

\* The if/elif chain over the tag: the class it selects, "" for the else branch.
KlassForTag(tag) ==
    IF tag.t # "str" THEN ""
    ELSE CASE tag.s = "error" -> "Error"
           [] tag.s = "ping" -> "Ping"
           [] tag.s = "pong" -> "Pong"
           [] tag.s = "store" -> "Store"
           [] tag.s = "findnode" -> "FindNode"
           [] tag.s = "nodes" -> "Nodes"
           [] tag.s = "findvalue" -> "FindValue"
           [] tag.s = "value" -> "Value"
           [] OTHER -> ""

\* str(value) as the % operator renders it.
Text(v) == IF v.t = "str" THEN v.s ELSE IF v.t = "int" THEN ToString(v.n) ELSE v.t

\* The else branch: '%s is not a valid message type.' % message. A tuple operand
\* is taken as the argument list, and only a 1-tuple fits the single %s.
UnknownType(tag) ==
    IF tag.t = "tuple"
    THEN Raised("TypeError", 0, EmptyDict)
    ELSE Raised("ValueError", 2,
                "context" :> (Text(tag) \o " is not a valid message type."))

from_msgpack(r) ==
    IF r.kind = "garbage" THEN Raised("UnpackException", 0, EmptyDict)
    ELSE IF r.kind # "map" THEN Raised("TypeError", 0, EmptyDict)
    ELSE LET data == UnpackMap(r.entries)
         IN  IF "message" \notin DOMAIN data THEN Raised("KeyError", 0, EmptyDict)
             ELSE IF KlassForTag(data["message"]) # ""
             THEN make_message(KlassForTag(data["message"]), data)
             ELSE UnknownType(data["message"])

(* ---------------------------------------------------------------- inputs *)

\* A well-formed value of each field.
Canon(field) ==
    CASE field = "uuid" -> PyStr("abc123")
      [] field = "node" -> PyBytes(IdLen)
      [] field = "version" -> PyStr("1.0")
      [] field = "code" -> PyInt(2)
      [] field = "title" -> PyStr("title")
      [] field = "details" -> PyDict("strmap")
      [] field = "key" -> PyBytes(IdLen)
      [] field = "value" -> PyStr("value")
      [] field = "timestamp" -> PyInt(1)
      [] field = "expires" -> PyInt(0)
      [] field = "public_key" -> PyBytes(IdLen)
      [] field = "name" -> PyStr("name")
      [] field = "meta" -> PyTuple("pairs")
      [] field = "sig" -> PyBytes(IdLen)
      [] field = "nodes" -> PyTuple("peers")

\* Other values a field is tried with: wrong-typed, wrong-shaped, and other
\* well-formed ones (a list where the canonical value is a tuple).
Alts(field) ==
    CASE field = "uuid" -> <<PyInt(7), PyBytes(16)>>
      [] field = "node" -> <<PyBytes(8), PyInt(7)>>
      [] field = "version" -> <<PyInt(1), PyDict("junk")>>
      [] field = "code" -> <<PyStr("two"), PyInt(3)>>
      [] field = "title" -> <<PyInt(7), PyStr("")>>
      [] field = "details" -> <<PyDict("junk"), PyTuple("pairs")>>
      [] field = "key" -> <<PyBytes(8), PyInt(7)>>
      [] field = "value" -> <<PyList("pairs"), PyInt(7)>>
      [] field = "timestamp" -> <<PyInt(-1), PyStr("now")>>
      [] field = "expires" -> <<PyInt(-1), PyStr("never")>>
      [] field = "public_key" -> <<PyInt(7), PyBytes(8)>>
      [] field = "name" -> <<PyInt(7), PyStr("other")>>
      [] field = "meta" -> <<PyList("pairs"), PyTuple("triples")>>
      [] field = "sig" -> <<PyBytes(8), PyInt(7)>>
      [] field = "nodes" -> <<PyList("peers"), PyInt(7)>>

DevSets(n, k) == {D \in SUBSET (1..n) : Cardinality(D) <= k}

\* A message value handed to to_msgpack: the canonical one of its class with
\* the fields in D replaced (to_msgpack does not validate, so any value may
\* occur).
MessageOf(klass, D, c) ==
    LET f == Fields(klass)
    IN  Message(klass, [i \in DOMAIN f |->
                          IF i \in D THEN Alts(f[i])[c[i]] ELSE Canon(f[i])])

PyAbsent == [t |-> "absent", s |-> "", n |-> 0]

IsPresent(e) == e.v.t # "absent"

\* What a sender may put under the `message` key.
WireTags ==
    {PyStr(Lower(k)) : k \in ClassSet}
    \cup {PyStr("Ping"), PyStr("PING"), PyStr("unknown"), PyInt(7),
          PackValue(PyTuple("pairs")), PyAbsent}

WireExtras == {PyAbsent, PyStr("surplus")}

\* The number of deviations of a network map from the packed canonical map of
\* klass: a field left out or replaced, a tag other than the class's own, and
\* an entry no class declares.
Devs(klass, D, tag, extra) ==
    Cardinality(D) + (IF tag = PyStr(Lower(klass)) THEN 0 ELSE 1)
                   + (IF extra = PyAbsent THEN 0 ELSE 1)

\* A map that arrives from the network.
NetworkMap(klass, D, c, tag, extra) ==
    LET f == Fields(klass)
        body == [i \in DOMAIN f |->
                   Entry(f[i], IF i \notin D THEN PackValue(Canon(f[i]))
                               ELSE IF c[i] = 0 THEN PyAbsent
                               ELSE PackValue(Alts(f[i])[c[i]]))]
    IN  RawMap(SelectSeq(body \o <<Entry("message", tag), Entry("extra", extra)>>,
                         IsPresent))

\* Bytes from the network that do not unpack to a map.
NetworkOthers ==
    {RawGarbage, RawValue(PyInt(7)), RawValue(PyStr("ping")),
     RawValue(PackValue(PyTuple("pairs")))}

(* --------------------------------------------------------- specification *)

NoFrames == <<>>

\* One caller: it either encodes a message value and decodes the bytes it got,
\* or decodes bytes that arrived from the network.
Init ==
    /\ result = NoResult
    /\ frames = NoFrames
    /\ \/ /\ pc = "encode"
          /\ \E klass \in ClassSet :
               \E D \in DevSets(Len(Fields(klass)), MaxDev) :
                 \E c \in [D -> 1..2] : message = MessageOf(klass, D, c)
          /\ raw = NoRaw
       \/ /\ pc = "received"
          /\ message = NoMessage
          /\ \/ raw \in NetworkOthers
             \/ \E klass \in ClassSet, tag \in WireTags, extra \in WireExtras :
                  \E D \in DevSets(Len(Fields(klass)), MaxDev) :
                    /\ Devs(klass, D, tag, extra) <= MaxDev
                    /\ \E c \in [D -> 0..2] :
                         raw = NetworkMap(klass, D, c, tag, extra)

\* raw = to_msgpack(message)
ToMsgpack ==
    /\ pc = "encode"
    /\ raw' = to_msgpack(message)
    /\ pc' = "encoded"
    /\ UNCHANGED <<message, result, frames>>

\* result = from_msgpack(raw), of bytes this caller encoded itself
FromMsgpackOwn ==
    /\ pc = "encoded"
    /\ result' = from_msgpack(raw)
    /\ pc' = "roundtrip"
    /\ UNCHANGED <<message, raw, frames>>

\* result = from_msgpack(raw), of bytes from the network
FromMsgpackNetwork ==
    /\ pc = "received"
    /\ result' = from_msgpack(raw)
    /\ pc' = "decoded"
    /\ UNCHANGED <<message, raw, frames>>

Next == ToMsgpack \/ FromMsgpackOwn \/ FromMsgpackNetwork

Spec == Init /\ [][Next]_vars

(* ------------------------------------------------ the calls, step by step *)

Procs == 1..NumProcs

\* The locals of one call of to_msgpack or of from_msgpack (and of the
\* make_message it calls); `given` is the argument as the caller passed it.
IdleFrame ==
    [pc |-> "idle", op |-> "none", given |-> [message |-> NoMessage, raw |-> NoRaw],
     message |-> NoMessage, raw |-> NoRaw, name |-> "", od |-> <<>>,
     isdict |-> FALSE, data |-> EmptyDict, tag |-> PyNone, klass |-> "",
     i |-> 0, args |-> <<>>, errors |-> EmptyDict, out |-> NoRaw,
     result |-> NoResult]

\* The message values the concurrent callers encode.
ConcMessages ==
    {MessageOf("Ping", {}, <<>>), MessageOf("Ping", {2}, <<1, 1>>),
     MessageOf("Nodes", {3}, <<1, 1, 1>>)}

\* The bytes the concurrent callers decode.
ConcRaws ==
    {to_msgpack(MessageOf("Ping", {}, <<>>)),
     NetworkMap("Ping", {1, 2}, <<1, 0>>, PyStr("ping"), PyAbsent),
     NetworkMap("Pong", {3}, <<0, 0, 0>>, PyStr("PONG"), PyAbsent),
     NetworkMap("Ping", {}, <<>>, PyAbsent, PyAbsent),
     RawGarbage}

\* A variant of InitialErrors where the dict is one object shared by the calls
\* (a mutable default argument): a call starts with what another one recorded.
InitialErrorsShared(p) ==
    LET others == {q \in Procs \ {p} : DOMAIN frames[q].errors # {}}
    IN  IF others = {} THEN EmptyDict ELSE frames[CHOOSE q \in others : TRUE].errors

\* errors = {} on entry to make_message: a fresh dict local to the call.
InitialErrors(p) == EmptyDict

Step(p, fr) == frames' = [frames EXCEPT ![p] = fr] /\ UNCHANGED <<pc, message, raw, result>>

CallToMsgpack(p) ==
    /\ frames[p].pc = "idle"
    /\ \E m \in ConcMessages :
         Step(p, [IdleFrame EXCEPT !.pc = "e_name", !.op = "to_msgpack",
                                   !.given.message = m, !.message = m])

CallFromMsgpack(p) ==
    /\ frames[p].pc = "idle"
    /\ \E r \in ConcRaws :
         Step(p, [IdleFrame EXCEPT !.pc = "d_unpack", !.op = "from_msgpack",
                                   !.given.raw = r, !.raw = r])

\* name = message.__class__.__name__.lower()
EncName(p) ==
    /\ frames[p].pc = "e_name"
    /\ Step(p, [frames[p] EXCEPT !.pc = "e_asdict",
                                 !.name = Lower(frames[p].message.klass)])

\* data = message._asdict()
EncAsDict(p) ==
    /\ frames[p].pc = "e_asdict"
    /\ Step(p, [frames[p] EXCEPT !.pc = "e_tag", !.od = AsDict(frames[p].message)])

\* data['message'] = name
EncTag(p) ==
    /\ frames[p].pc = "e_tag"
    /\ Step(p, [frames[p] EXCEPT !.pc = "e_pack",
                                 !.od = Tagged(frames[p].od, frames[p].name)])

\* return msgpack.packb(data)
EncPack(p) ==
    /\ frames[p].pc = "e_pack"
    /\ Step(p, [frames[p] EXCEPT !.pc = "done", !.out = Packb(frames[p].od)])

\* data = msgpack.unpackb(raw, use_list=False)
DecUnpack(p) ==
    LET fr == frames[p]
    IN  /\ fr.pc = "d_unpack"
        /\ Step(p, IF fr.raw.kind = "garbage"
                   THEN [fr EXCEPT !.pc = "done",
                                   !.result = Raised("UnpackException", 0, EmptyDict)]
                   ELSE IF fr.raw.kind = "map"
                   THEN [fr EXCEPT !.pc = "d_tag", !.isdict = TRUE,
                                   !.data = UnpackMap(fr.raw.entries)]
                   ELSE [fr EXCEPT !.pc = "d_tag"])

\* message = data['message']
DecTag(p) ==
    LET fr == frames[p]
    IN  /\ fr.pc = "d_tag"
        /\ Step(p, IF ~fr.isdict
                   THEN [fr EXCEPT !.pc = "done",
                                   !.result = Raised("TypeError", 0, EmptyDict)]
                   ELSE IF "message" \notin DOMAIN fr.data
                   THEN [fr EXCEPT !.pc = "done",
                                   !.result = Raised("KeyError", 0, EmptyDict)]
                   ELSE [fr EXCEPT !.pc = "d_dispatch", !.tag = fr.data["message"]])

\* The if/elif chain, and the entry to make_message or the final else.
DecDispatch(p) ==
    LET fr == frames[p]
    IN  /\ fr.pc = "d_dispatch"
        /\ Step(p, IF KlassForTag(fr.tag) # ""
                   THEN [fr EXCEPT !.pc = "d_loop", !.klass = KlassForTag(fr.tag),
                                   !.i = 1, !.args = <<>>,
                                   !.errors = InitialErrors(p)]
                   ELSE [fr EXCEPT !.pc = "done", !.result = UnknownType(fr.tag)])

\* One iteration of `for field in fields`.
DecLoop(p) ==
    LET fr == frames[p]
        f == Fields(fr.klass)
    IN  /\ fr.pc = "d_loop"
        /\ fr.i <= Len(f)
        /\ LET v == VisitField([args |-> fr.args, errors |-> fr.errors],
                               f[fr.i], fr.data)
           IN  Step(p, [fr EXCEPT !.i = fr.i + 1, !.args = v.args,
                                  !.errors = v.errors])

\* `if errors: raise ... else: return klass(*args)`
DecFinish(p) ==
    LET fr == frames[p]
    IN  /\ fr.pc = "d_loop"
        /\ fr.i > Len(Fields(fr.klass))
        /\ Step(p, [fr EXCEPT !.pc = "done",
                              !.result = Finish(fr.klass, [args |-> fr.args,
                                                           errors |-> fr.errors])])

InitConc ==
    /\ pc = "concurrent"
    /\ message = NoMessage
    /\ raw = NoRaw
    /\ result = NoResult
    /\ frames = [p \in Procs |-> IdleFrame]

NextConc ==
    \E p \in Procs :
        \/ CallToMsgpack(p)
        \/ CallFromMsgpack(p)
        \/ EncName(p)
        \/ EncAsDict(p)
        \/ EncTag(p)
        \/ EncPack(p)
        \/ DecUnpack(p)
        \/ DecTag(p)
        \/ DecDispatch(p)
        \/ DecLoop(p)
        \/ DecFinish(p)

\* Any number of callers, each running one call, interleaved statement by
\* statement.
SpecConc == InitConc /\ [][NextConc]_vars

(* ------------------------------------------------- vocabulary of the claims *)

\* The eight tags, as the claims spell them.
KnownTags ==
    {"error", "ping", "pong", "store", "findnode", "nodes", "findvalue", "value"}

ExpectedTag(klass) ==
    CASE klass = "Error" -> "error"
      [] klass = "Ping" -> "ping"
      [] klass = "Pong" -> "pong"
      [] klass = "Store" -> "store"
      [] klass = "FindNode" -> "findnode"
      [] klass = "Nodes" -> "nodes"
      [] klass = "FindValue" -> "findvalue"
      [] klass = "Value" -> "value"

ExpectedClass(tag) == CHOOSE k \in ClassSet : ExpectedTag(k) = tag

Encoded == pc \in {"encoded", "roundtrip"}

Decoded == pc \in {"decoded", "roundtrip"}

\* The parsed map of the bytes being decoded.
Parsed == UnpackMap(raw.entries)

IsMap == raw.kind = "map"

HasTag == IsMap /\ "message" \in Keys(raw.entries)

TagIsKnown(tag) == tag.t = "str" /\ tag.s \in KnownTags

TagIsUnknown(tag) == tag.t = "str" /\ tag.s \notin KnownTags

HasKnownTag == HasTag /\ TagIsKnown(Lookup(raw.entries, "message"))

HasUnknownTag == HasTag /\ TagIsUnknown(Lookup(raw.entries, "message"))

\* The variant the tag of the parsed map d names.
Variant(d) == ExpectedClass(d["message"].s)

AbsentFields(d) == {f \in FieldSet(Variant(d)) : f \notin DOMAIN d}

RejectedFields(d) ==
    {f \in FieldSet(Variant(d)) : f \in DOMAIN d /\ ~Validator(f, d[f])}

\* The failure kinds of the specification, as the caller can tell them apart:
\* the codec's structured failure is ValueError(2, ERRORS[2], details), the
\* parser's is msgpack's own exception; a bare KeyError or TypeError is neither.
OutcomeKind(r) ==
    CASE r.kind = "message" -> "Message"
      [] r.kind = "UnpackException" -> "MalformedEncoding"
      [] r.kind = "ValueError" /\ "context" \in DOMAIN r.details -> "UnknownMessageType"
      [] r.kind = "ValueError" /\ "context" \notin DOMAIN r.details -> "ValidationFailed"
      [] OTHER -> "Unstructured"

(* ------------------------------------------------------------------ claims *)

\* C1: round trip. For every message value m whose every field value is
\* accepted by the field's validator, from_msgpack(to_msgpack(m)) returns a
\* value of m's variant with every field equal to m's.
C1_RoundTrip ==
    (/\ pc = "roundtrip"
     /\ \A i \in DOMAIN message.args :
          Validator(Fields(message.klass)[i], message.args[i]))
    => /\ result.kind = "message"
       /\ result.klass = message.klass
       /\ result.args = message.args

\* C2: aggregate validation. When decode of a map with a known tag fails
\* validation, the keys of the reported mapping are exactly the declared fields
\* that are absent or rejected, an absent field reported as missing and a
\* rejected one as invalid; the mapping is never cut short.
C2_AggregateValidation ==
    (Decoded /\ HasKnownTag /\ result.kind = "ValueError")
    => LET d == Parsed
           absent == AbsentFields(d)
           rejected == RejectedFields(d)
       IN  /\ DOMAIN result.details = absent \cup rejected
           /\ \A f \in absent : result.details[f] = "Missing field."
           /\ \A f \in rejected : result.details[f] = "Invalid value."

\* Two missing fields and one wrong-typed field give exactly three entries.
C2_Witness ==
    /\ Decoded /\ HasKnownTag /\ result.kind = "ValueError"
    /\ Cardinality(AbsentFields(Parsed)) = 2
    /\ Cardinality(RejectedFields(Parsed)) = 1
    /\ \A f \in RejectedFields(Parsed) : Parsed[f].t # Canon(f).t
    /\ Cardinality(DOMAIN result.details) = 3

\* C3: closed tag set. Decode of a map whose `message` entry is a string other
\* than the eight lower-case tags raises the unknown-message-type failure that
\* carries the tag, whatever else the map holds; no field is validated and no
\* message value is built.
C3_ClosedTagSet ==
    (Decoded /\ HasUnknownTag)
    => /\ result.kind = "ValueError"
       /\ result.code = 2
       /\ DOMAIN result.details = {"context"}
       /\ result.details["context"]
            = Parsed["message"].s \o " is not a valid message type."
       /\ result.args = <<>>

\* A tag that differs from a known one only by case, on a map that lacks fields.
C3_Witness ==
    /\ Decoded /\ HasUnknownTag
    /\ Parsed["message"].s = "Ping"
    /\ "node" \notin DOMAIN Parsed
    /\ OutcomeKind(result) = "UnknownMessageType"

\* C4: decode of a parsed map that has no `message` entry fails with the
\* MalformedEncoding failure kind, a structured decoding failure.
C4_MissingTagIsMalformed ==
    (Decoded /\ IsMap /\ ~HasTag) => OutcomeKind(result) = "MalformedEncoding"

\* C5 (as claimed): decode of a map with a variant's tag succeeds only if the
\* map's entries other than `message` are exactly the variant's declared fields.
C5_ClosedFieldSet ==
    (Decoded /\ HasKnownTag /\ result.kind = "message")
    => Keys(raw.entries) \ {"message"} = FieldSet(Variant(Parsed))

\* C5 (amended): decode of a map with a variant's tag succeeds exactly when
\* every declared field of the variant is present and accepted; a map that omits
\* a declared field fails validation with that field reported; entries the
\* variant does not declare are ignored and never reach the message value.
C5_DeclaredFieldsRequired ==
    (Decoded /\ HasKnownTag)
    => LET d == Parsed
           absent == AbsentFields(d)
       IN  /\ result.kind = "message" <=> absent \cup RejectedFields(d) = {}
           /\ \A f \in absent :
                result.kind = "ValueError" /\ f \in DOMAIN result.details
           /\ result.kind = "message" =>
                /\ FieldSet(Variant(d)) \subseteq Keys(raw.entries)
                /\ Len(result.args) = Len(Fields(Variant(d)))

\* A map with an undeclared entry decodes to a message value.
C5_Witness ==
    /\ Decoded /\ HasKnownTag
    /\ "extra" \in Keys(raw.entries)
    /\ result.kind = "message"

\* C6: every call of from_msgpack ends in a typed message value,
\* MalformedEncoding, UnknownMessageType or ValidationFailed; no unstructured
\* lookup or type error is reachable.
C6_ClosedOutcomes ==
    Decoded =>
      OutcomeKind(result) \in
        {"Message", "MalformedEncoding", "UnknownMessageType", "ValidationFailed"}

\* C7: the map to_msgpack packs has as keys exactly the declared field names
\* plus `message`; each field key maps to the message's value for the field and
\* `message` maps to the variant's lower-case tag, one of the eight tags.
C7_EncodeShape ==
    Encoded =>
      LET f == Fields(message.klass)
          e == raw.entries
      IN  /\ raw.kind = "map"
          /\ Keys(e) = FieldSet(message.klass) \cup {"message"}
          /\ Len(e) = Len(f) + 1
          /\ \A i \in DOMAIN f : Lookup(e, f[i]) = PackValue(message.args[i])
          /\ Lookup(e, "message") = PyStr(ExpectedTag(message.klass))
          /\ ExpectedTag(message.klass) \in KnownTags

\* A multi-word variant with a `name` field and a replaced field is encoded.
C7_Witness ==
    /\ pc = "encoded"
    /\ message.klass = "FindValue"
    /\ message.args[3] # Canon("key")
    /\ Lookup(raw.entries, "message") = PyStr("findvalue")

\* C10: make_message builds a value only when no error was recorded; after
\* visiting k fields, staged values + recorded errors = k; the value returned is
\* of the variant the tag selects and its field f equals the map's entry for f.
C10_PositionalAlignment ==
    (Decoded /\ HasKnownTag)
    => LET d == Parsed
           f == Fields(Variant(d))
           last == Visit(f, d, Len(f))
       IN  /\ \A k \in 0..Len(f) :
                LET fr == Visit(f, d, k)
                IN  Len(fr.args) + Cardinality(DOMAIN fr.errors) = k
           /\ result.kind = "message" =>
                /\ DOMAIN last.errors = {}
                /\ result.klass = Variant(d)
                /\ DOMAIN result.args = DOMAIN f
                /\ \A i \in DOMAIN f : result.args[i] = d[f[i]]

\* The concrete scenario: {message: "ping", uuid: "abc123", node: <64 bytes>,
\* version: "1.0"} decodes to a Ping with those three fields.
C10_Witness ==
    /\ pc = "decoded"
    /\ Keys(raw.entries) = {"message", "uuid", "node", "version"}
    /\ result = Returned(Message("Ping", <<PyStr("abc123"), PyBytes(IdLen), PyStr("1.0")>>))

C9_PureUnderConcurrency ==
    \A p \in Procs :
        /\ frames[p].message = frames[p].given.message
        /\ frames[p].raw = frames[p].given.raw
        /\ (frames[p].pc = "done" /\ frames[p].op = "to_msgpack")
           => frames[p].out = to_msgpack(frames[p].given.message)
        /\ (frames[p].pc = "done" /\ frames[p].op = "from_msgpack")
           => frames[p].result = from_msgpack(frames[p].given.raw)
        /\ frames[p].isdict => frames[p].data = UnpackMap(frames[p].given.raw.entries)

\* A decode that succeeded next to one that collected field errors.
C9_Witness ==
    \E p, q \in Procs :
        /\ p # q
        /\ frames[p].pc = "done" /\ frames[p].result.kind = "message"
        /\ frames[q].pc = "done" /\ frames[q].result.kind = "ValueError"
        /\ Cardinality(DOMAIN frames[q].result.details) = 2

====
